---- MODULE Spec2Model ----
(***************************************************************************)
(* Model of the underline annotation tool: the word- and sentence-boundary *)
(* functions of utils/textUtils.ts, the segment loop of ParagraphRenderer  *)
(* and the click handler of UnderlineTool.                                 *)
(*                                                                         *)
(* A text is a sequence of one-character strings.  Offsets are 0-based and *)
(* half-open as in the source; CharAt converts to the 1-based sequences.   *)
(***************************************************************************)
EXTENDS Integers, Sequences, FiniteSets, TLC

VARIABLES
    text,                 \* textWithUnderlines.text / the text argument
    underlines,           \* textWithUnderlines.underlines / the underlines prop
    selectedUnderlineId,  \* useState selectedUnderlineId
    underlineMap,         \* ParagraphRenderer: underlineMap
    segments,             \* ParagraphRenderer: segments
    sentenceBoundaries,   \* result of getSentenceBoundaries
    selStart,             \* start argument of the function applied
    selEnd,               \* end argument of the function applied
    passedBoundaries,     \* optional sentenceBoundaries argument
    expanded,             \* result of expandToWordBoundaries
    within,               \* result of isWithinSingleSentence
    pc,                   \* which step has run
    clipped,              \* result of clipToSentenceBoundary
    currentSelection,     \* useState currentSelection
    nextId,               \* how many ids uuidv4 has issued, plus one
    variant,              \* which version of UnderlineTool is running
    lastOp                \* the handler that ran last, and the branch it took

vars == <<text, underlines, selectedUnderlineId, underlineMap, segments,
          sentenceBoundaries, selStart, selEnd, passedBoundaries, expanded,
          within, pc, clipped, currentSelection, nextId, variant, lastOp>>

\* the state of UnderlineTool that the functions applied on their own leave
\* alone
toolVars == <<clipped, currentSelection, nextId, variant, lastOp>>

----------------------------------------------------------------------------
(* Bounds of the model *)

\* longest enumerated text for the word and sentence functions
MaxLen == 4
\* longest enumerated text for isWithinSingleSentence
MaxWithinLen == 2
\* longest enumerated text for the renderer
MaxRenderLen == 3
\* longest enumerated underline list for the renderer
MaxRanges == 2
\* longest enumerated list of well-formed, pairwise different underlines
MaxValidRanges == 3
\* how many ids of underlines are issued at most
MaxAdds == 2
\* how far behind the end of the text a raw selection may end
MaxBeyond == 1

----------------------------------------------------------------------------
(* Characters and texts *)

\* JavaScript null / undefined
Null == "null"
Undefined == "undefined"

\* useState<...| null>(null) for a value that is a record otherwise: <<>> is
\* null, <<v>> is the value v
NoSelection == <<>>

\* UnderlineTool before any handler has run
ToolIdle ==
    /\ clipped = Null
    /\ currentSelection = NoSelection
    /\ nextId = 1
    /\ variant = "none"
    /\ lastOp = "none"

\* one representative per character class the regular expressions tell apart:
\* word character, whitespace, sentence terminal, other punctuation, quote
Alphabet == {"a", " ", ".", ",", "'"}

\* "Hello world. Good day!"
HelloText ==
    <<"H","e","l","l","o"," ","w","o","r","l","d","."," ",
      "G","o","o","d"," ","d","a","y","!">>

\* "don't stop"
DontText == <<"d","o","n","'","t"," ","s","t","o","p">>

\* "!!!"
BangText == <<"!","!","!">>

TextsUpTo(n) == UNION {[1..k -> Alphabet] : k \in 0..n}

\* text[i] of JavaScript: undefined outside the string
CharAt(t, i) == IF i >= 0 /\ i < Len(t) THEN t[i + 1] ELSE Undefined

Min(a, b) == IF a < b THEN a ELSE b
Max(a, b) == IF a > b THEN a ELSE b

\* String.prototype.slice(start, end): negative offsets count from the end,
\* both are clamped to [0, length]
SliceIndex(t, i) == IF i < 0 THEN Max(Len(t) + i, 0) ELSE Min(i, Len(t))
Slice(t, s, e) ==
    LET from == SliceIndex(t, s)
        to == SliceIndex(t, e)
    IN  IF from >= to THEN <<>> ELSE SubSeq(t, from + 1, to)

\* /\s/.test(c); test() converts undefined to the string "undefined"
IsWhitespace(c) == c \in {" ", "\t", "\n"}

\* the class [.,!?;:] of the word-boundary expressions
IsPunctuation(c) == c \in {".", ",", "!", "?", ";", ":"}

\* /[^\s.,!?;:]/.test(c)
IsWordChar(c) == ~IsWhitespace(c) /\ ~IsPunctuation(c)

\* /^[\s.,!?;:]+$/.test(s)
IsOnlySpaceOrPunct(s) ==
    Len(s) >= 1 /\ \A k \in 1..Len(s) : IsWhitespace(s[k]) \/ IsPunctuation(s[k])

----------------------------------------------------------------------------
(* utils/textUtils.ts: expandToWordBoundaries *)

RECURSIVE TrimStartPunct(_, _, _)
\* TrimStart with a trimming class that also holds the punctuation set
TrimStartPunct(t, s, e) ==
    IF s < e /\ ~IsWordChar(CharAt(t, s)) THEN TrimStartPunct(t, s + 1, e) ELSE s

RECURSIVE TrimStart(_, _, _)
\* while (start < end && /\s/.test(text[start])) start++
TrimStart(t, s, e) ==
    IF s < e /\ IsWhitespace(CharAt(t, s)) THEN TrimStart(t, s + 1, e) ELSE s

RECURSIVE TrimEnd(_, _, _)
\* while (end > start && /\s/.test(text[end - 1])) end--
TrimEnd(t, s, e) ==
    IF e > s /\ IsWhitespace(CharAt(t, e - 1)) THEN TrimEnd(t, s, e - 1) ELSE e

RECURSIVE ExpandLeftQuoteStop(_, _)
\* ExpandLeft with the apostrophe added to the characters that stop it
ExpandLeftQuoteStop(t, newStart) ==
    IF newStart > 0 /\ IsWordChar(CharAt(t, newStart - 1))
                    /\ CharAt(t, newStart - 1) # "'"
    THEN ExpandLeftQuoteStop(t, newStart - 1)
    ELSE newStart

RECURSIVE ExpandLeftToSpace(_, _)
\* ExpandLeft stopped by whitespace only
ExpandLeftToSpace(t, newStart) ==
    IF newStart > 0 /\ ~IsWhitespace(CharAt(t, newStart - 1))
    THEN ExpandLeftToSpace(t, newStart - 1)
    ELSE newStart

RECURSIVE ExpandLeft(_, _)
\* while (newStart > 0 && /[^\s.,!?;:]/.test(text[newStart - 1])) newStart--
ExpandLeft(t, newStart) ==
    IF newStart > 0 /\ IsWordChar(CharAt(t, newStart - 1))
    THEN ExpandLeft(t, newStart - 1)
    ELSE newStart

RECURSIVE ExpandRight(_, _)
\* while (newEnd < text.length && /[^\s.,!?;:]/.test(text[newEnd])) newEnd++
ExpandRight(t, newEnd) ==
    IF newEnd < Len(t) /\ IsWordChar(CharAt(t, newEnd))
    THEN ExpandRight(t, newEnd + 1)
    ELSE newEnd

\* the pair (start, end) after the two trimming loops
TrimmedPair(t, start, end) ==
    LET s == TrimStart(t, start, end)
    IN  <<s, TrimEnd(t, s, end)>>

expandToWordBoundaries(t, start, end) ==
    IF start >= end THEN <<start, end>>
    ELSE LET tp == TrimmedPair(t, start, end)
             s == tp[1]
             e == tp[2]
         IN  IF s >= e THEN <<s, e>>
             ELSE IF IsOnlySpaceOrPunct(Slice(t, s, e)) THEN <<s, e>>
             ELSE <<ExpandLeft(t, s), ExpandRight(t, e)>>

----------------------------------------------------------------------------
(* utils/textUtils.ts: getSentenceBoundaries                               *)
(*                                                                         *)
(* sentenceRegex is                                                        *)
(*   [^.!?\s] [^.!?]* (?: [.!?] (?!['"]?\s|$) [^.!?]* )* [.!?]? ['"]?      *)
(*   (?=\s|$)                                                              *)
(* matched by backtracking: every quantifier is greedy, so the longer      *)
(* alternative is tried first and the first alternative that lets the rest *)
(* of the expression match decides.  A matcher returns the offset where    *)
(* the match ends, or NoMatch.                                             *)

NoMatch == -1

\* the class [.!?]
IsTerminal(c) == c \in {".", "!", "?"}

\* the class ['"]
IsQuote(c) == c \in {"'", "\""}

\* the lookahead (?=\s|$) at offset q; $ is the end of the input (no m flag)
AtSpaceOrEnd(t, q) == q = Len(t) \/ (q < Len(t) /\ IsWhitespace(t[q + 1]))

\* what the negative lookahead (?!['"]?\s|$) rejects at offset q
QuoteSpaceOrEnd(t, q) ==
    \/ q < Len(t) /\ IsQuote(t[q + 1]) /\ q + 1 < Len(t) /\ IsWhitespace(t[q + 2])
    \/ q < Len(t) /\ IsWhitespace(t[q + 1])
    \/ q = Len(t)

RECURSIVE RunEnd(_, _)
\* where the longest match of [^.!?]* from offset q ends
RunEnd(t, q) ==
    IF q < Len(t) /\ ~IsTerminal(t[q + 1]) THEN RunEnd(t, q + 1) ELSE q

\* [.!?]?['"]?(?=\s|$) at offset q: both optional atoms are tried present
\* before absent
MatchTail(t, q) ==
    LET term == q < Len(t) /\ IsTerminal(t[q + 1])
        quoteAfterTerm == q + 1 < Len(t) /\ IsQuote(t[q + 2])
        quoteHere == q < Len(t) /\ IsQuote(t[q + 1])
    IN  IF term /\ quoteAfterTerm /\ AtSpaceOrEnd(t, q + 2) THEN q + 2
        ELSE IF term /\ AtSpaceOrEnd(t, q + 1) THEN q + 1
        ELSE IF quoteHere /\ AtSpaceOrEnd(t, q + 1) THEN q + 1
        ELSE IF AtSpaceOrEnd(t, q) THEN q
        ELSE NoMatch

RECURSIVE MatchGroups(_, _), MatchAfterRun(_, _, _)
\* (?:[.!?](?!['"]?\s|$)[^.!?]*)* followed by the tail, at offset q: one more
\* repetition of the group is tried before leaving the loop
MatchGroups(t, q) ==
    IF q < Len(t) /\ IsTerminal(t[q + 1]) /\ ~QuoteSpaceOrEnd(t, q + 1)
    THEN LET r == MatchAfterRun(t, q + 1, RunEnd(t, q + 1))
         IN  IF r # NoMatch THEN r ELSE MatchTail(t, q)
    ELSE MatchTail(t, q)

\* [^.!?]* from offset lo, now ending at j, followed by the rest: the run
\* gives characters back one at a time while the rest does not match
MatchAfterRun(t, lo, j) ==
    IF j < lo THEN NoMatch
    ELSE LET r == MatchGroups(t, j)
         IN  IF r # NoMatch THEN r ELSE MatchAfterRun(t, lo, j - 1)

\* the whole expression anchored at offset p
MatchAt(t, p) ==
    IF p < Len(t) /\ ~IsTerminal(t[p + 1]) /\ ~IsWhitespace(t[p + 1])
    THEN MatchAfterRun(t, p + 1, RunEnd(t, p + 1))
    ELSE NoMatch

RECURSIVE RegexExec(_, _)
\* sentenceRegex.exec(text) with lastIndex = from: the first offset at or
\* after lastIndex where the expression matches, as <<index, end>>, or Null
RegexExec(t, from) ==
    IF from > Len(t) THEN Null
    ELSE IF MatchAt(t, from) # NoMatch THEN <<from, MatchAt(t, from)>>
    ELSE RegexExec(t, from + 1)

\* a global expression leaves lastIndex at the end of the match
LastIndexRestart(match) == match[1] + 1
LastIndexAfter(match) == match[2]

RECURSIVE ExecLoop(_, _, _)
\* while ((match = sentenceRegex.exec(text)) !== null) boundaries.push(...)
ExecLoop(t, lastIndex, boundaries) ==
    LET match == RegexExec(t, lastIndex)
    IN  IF match = Null THEN boundaries
        ELSE ExecLoop(t, LastIndexAfter(match),
                      Append(boundaries, [start |-> match[1], end |-> match[2]]))

\* if (boundaries.length === 0 && text.length > 0) push the whole text
NoFallback(t, boundaries) == boundaries
WholeTextFallback(t, boundaries) ==
    IF Len(boundaries) = 0 /\ Len(t) > 0
    THEN Append(boundaries, [start |-> 0, end |-> Len(t)])
    ELSE boundaries

getSentenceBoundaries(t) == WholeTextFallback(t, ExecLoop(t, 0, <<>>))

----------------------------------------------------------------------------
(* utils/textUtils.ts: isWithinSingleSentence *)

\* start >= boundary.start && end <= boundary.end
BoundaryTouches(boundary, start, end) == start < boundary.end /\ end > boundary.start
BoundaryContainsStart(boundary, start, end) == start >= boundary.start /\ start < boundary.end
BoundaryContains(boundary, start, end) == start >= boundary.start /\ end <= boundary.end

\* the optional parameter sentenceBoundaries?: <<>> when the caller leaves it
\* out (undefined), <<list>> when the caller passes list
NotPassed == <<>>
Passed(list) == <<list>>

\* const boundaries = sentenceBoundaries || getSentenceBoundaries(text);
\* an array, also the empty one, is truthy
BoundariesUsed(t, passed) ==
    IF passed = NotPassed THEN getSentenceBoundaries(t) ELSE passed[1]

RECURSIVE WithinLoop(_, _, _, _)
\* for (const boundary of boundaries) if (...) return true;  return false
WithinLoop(boundaries, k, start, end) ==
    IF k > Len(boundaries) THEN FALSE
    ELSE IF BoundaryContains(boundaries[k], start, end) THEN TRUE
    ELSE WithinLoop(boundaries, k + 1, start, end)

isWithinSingleSentence(t, start, end, passed) ==
    WithinLoop(BoundariesUsed(t, passed), 1, start, end)

----------------------------------------------------------------------------
(* utils/textUtils.ts: clipToSentenceBoundary *)

\* start >= boundary.start && start < boundary.end
BoundaryHoldsStartOrEnd(boundary, start) == start >= boundary.start /\ start <= boundary.end
BoundaryHoldsStart(boundary, start) == start >= boundary.start /\ start < boundary.end

\* [Math.max(start, boundary.start), Math.min(end, boundary.end)]
ClipTo(boundary, start, end) == <<Max(start, boundary.start), Min(end, boundary.end)>>

RECURSIVE ClipLoop(_, _, _, _)
\* for (const boundary of boundaries) if (...) return [...];  return [start, end]
ClipLoop(boundaries, k, start, end) ==
    IF k > Len(boundaries) THEN <<start, end>>
    ELSE IF BoundaryHoldsStart(boundaries[k], start)
         THEN ClipTo(boundaries[k], start, end)
         ELSE ClipLoop(boundaries, k + 1, start, end)

clipToSentenceBoundary(t, start, end, passed) ==
    ClipLoop(BoundariesUsed(t, passed), 1, start, end)

----------------------------------------------------------------------------
(* components/ParagraphRenderer/ParagraphRenderer.tsx                      *)
(*                                                                         *)
(* An underline is [id, startIndex, endIndex].                             *)

\* ul => index >= ul.startIndex && index < ul.endIndex
CoversThroughEnd(ul, index) == index >= ul.startIndex /\ index <= ul.endIndex
Covers(ul, index) == index >= ul.startIndex /\ index < ul.endIndex

\* (a, b) => (a.endIndex - a.startIndex) - (b.endIndex - b.startIndex)
CompareLongestFirst(a, b) == (b.endIndex - b.startIndex) - (a.endIndex - a.startIndex)
CompareByLength(a, b) == (a.endIndex - a.startIndex) - (b.endIndex - b.startIndex)

\* Array.prototype.filter
SelectCovering(uls, index) == SelectSeq(uls, LAMBDA ul : Covers(ul, index))

RECURSIVE InsertSorted(_, _, _)
\* ul put into the sorted list behind every element that does not compare
\* greater than it
InsertSorted(sorted, ul, k) ==
    IF k > Len(sorted) THEN Append(sorted, ul)
    ELSE IF CompareByLength(sorted[k], ul) > 0
         THEN SubSeq(sorted, 1, k - 1) \o <<ul>> \o SubSeq(sorted, k, Len(sorted))
         ELSE InsertSorted(sorted, ul, k + 1)

RECURSIVE SortFrom(_, _, _)
\* Array.prototype.sort(compare): a stable sort (ECMAScript 2019)
SortFrom(uls, k, sorted) ==
    IF k > Len(uls) THEN sorted
    ELSE SortFrom(uls, k + 1, InsertSorted(sorted, uls[k], 1))

SortByLength(uls) == SortFrom(uls, 1, <<>>)

getUnderlineIdsForIndex(uls, index) ==
    LET sorted == SortByLength(SelectCovering(uls, index))
    IN  [k \in 1..Len(sorted) |-> sorted[k].id]

\* for (let i = 0; i < text.length; i++) underlineMap[i] = ...
BuildUnderlineMap(t, uls) ==
    [k \in 1..Len(t) |-> getUnderlineIdsForIndex(uls, k - 1)]

RECURSIVE JoinQuoted(_, _)
\* the elements of ids from the k-th on, quoted and separated by commas
JoinQuoted(ids, k) ==
    IF k > Len(ids) THEN ""
    ELSE "\"" \o ids[k] \o "\"" \o (IF k < Len(ids) THEN "," ELSE "")
              \o JoinQuoted(ids, k + 1)

\* a comparison key that keeps the number of ids only
StringifyLength(ids) == ToString(Len(ids))

\* JSON.stringify of an array of strings
JSONStringify(ids) == "[" \o JoinQuoted(ids, 1) \o "]"

\* underlineMap[i] || []
MapAt(map, i) == IF i >= 0 /\ i < Len(map) THEN map[i + 1] ELSE <<>>

\* JSON.stringify(prev) !== JSON.stringify(curr) || i === text.length
CutOnChangeOnly(map, n, i) ==
    JSONStringify(MapAt(map, i - 1)) # JSONStringify(MapAt(map, i))
CutHere(map, n, i) ==
    JSONStringify(MapAt(map, i - 1)) # JSONStringify(MapAt(map, i)) \/ i = n

RECURSIVE SegmentLoop(_, _, _, _, _)
\* for (let i = 1; i <= text.length; i++) { ... segments.push(...) ... }
SegmentLoop(map, n, i, segStart, segs) ==
    IF i > n THEN segs
    ELSE IF CutHere(map, n, i)
         THEN SegmentLoop(map, n, i + 1, i,
                          Append(segs, [start |-> segStart, end |-> i,
                                        underlineIds |-> MapAt(map, i - 1)]))
         ELSE SegmentLoop(map, n, i + 1, segStart, segs)

\* the segments ParagraphRenderer renders for text t and underlines uls
ParagraphRenderer(t, uls) == SegmentLoop(BuildUnderlineMap(t, uls), Len(t), 1, 0, <<>>)

----------------------------------------------------------------------------
(* components/UnderlineTool/UnderlineTool.tsx: the click handlers *)

\* setSelectedUnderlineId(prev => prev === id ? null : id)
handleUnderlineClick(prev, id) == IF prev = id THEN Null ELSE id

----------------------------------------------------------------------------
(* Specification of expandToWordBoundaries applied to bounded inputs *)

WordTexts == TextsUpTo(MaxLen) \cup {DontText}

InitWord ==
    /\ text \in WordTexts
    /\ selStart \in 0..Len(text)
    /\ selEnd \in 0..Len(text)
    /\ underlines = <<>>
    /\ selectedUnderlineId = Null
    /\ underlineMap = <<>>
    /\ segments = <<>>
    /\ sentenceBoundaries = <<>>
    /\ passedBoundaries = NotPassed
    /\ expanded = Null
    /\ within = Null
    /\ pc = "start"
    /\ ToolIdle

ExpandCall ==
    /\ pc = "start"
    /\ expanded' = expandToWordBoundaries(text, selStart, selEnd)
    /\ pc' = "expanded"
    /\ UNCHANGED <<text, underlines, selectedUnderlineId, underlineMap, segments,
                   sentenceBoundaries, selStart, selEnd, passedBoundaries, within>>
    /\ UNCHANGED toolVars

NextWord == ExpandCall

SpecWord == InitWord /\ [][NextWord]_vars

----------------------------------------------------------------------------
(* Properties of expandToWordBoundaries *)

IsSeparator(c) == IsWhitespace(c) \/ IsPunctuation(c)

\* the selected positions that hold no whitespace
InkPositions == {i \in selStart..(selEnd - 1) : ~IsWhitespace(CharAt(text, i))}

\* the selection with its leading and trailing whitespace taken off; a
\* selection of whitespace only collapses onto its end
TrimmedStart ==
    IF InkPositions = {} THEN selEnd
    ELSE CHOOSE i \in InkPositions : \A j \in InkPositions : i <= j
TrimmedEnd ==
    IF InkPositions = {} THEN selEnd
    ELSE 1 + CHOOSE i \in InkPositions : \A j \in InkPositions : j <= i

\* the case of C6: a non-degenerate selection that holds more than
\* whitespace and punctuation
HoldsWord == selStart < selEnd /\ \E i \in InkPositions : ~IsPunctuation(CharAt(text, i))

\* C6: a selection that holds a word character is expanded to (s, e) around
\* the trimmed span [ts, te): every added character is a word character
\* (apostrophes and hyphens included), s is 0 or follows a separator, e is
\* the length or stands on a separator; ("don't stop", 2, 4) gives (0, 5).
ExpandCoversWholeWords ==
    (pc = "expanded" /\ HoldsWord) =>
        /\ expanded[1] <= TrimmedStart
        /\ TrimmedEnd <= expanded[2]
        /\ \A i \in expanded[1]..(TrimmedStart - 1) : ~IsSeparator(CharAt(text, i))
        /\ \A i \in TrimmedEnd..(expanded[2] - 1) : ~IsSeparator(CharAt(text, i))
        /\ expanded[1] = 0 \/ IsSeparator(CharAt(text, expanded[1] - 1))
        /\ expanded[2] = Len(text) \/ IsSeparator(CharAt(text, expanded[2]))
        /\ (text = DontText /\ selStart = 2 /\ selEnd = 4) => expanded = <<0, 5>>

\* the contraction of "don't stop" selected from inside and expanded
DontExpanded ==
    /\ pc = "expanded" /\ HoldsWord
    /\ text = DontText /\ selStart = 2 /\ selEnd = 4
    /\ expanded = <<0, 5>>

\* C7 as stated: the result contains the offsets the caller passed in
ExpandContainsRawInput ==
    (pc = "expanded" /\ selStart < selEnd) =>
        expanded[1] <= selStart /\ expanded[2] >= selEnd

\* C7 amended: the result contains the whitespace-trimmed selection, and it
\* contains the offsets passed in when the first and the last selected
\* character are not whitespace.
ExpandContainsTrimmedInput ==
    (pc = "expanded" /\ selStart < selEnd) =>
        /\ expanded[1] <= TrimmedStart
        /\ expanded[2] >= TrimmedEnd
        /\ (~IsWhitespace(CharAt(text, selStart)) /\ ~IsWhitespace(CharAt(text, selEnd - 1)))
              => (expanded[1] <= selStart /\ expanded[2] >= selEnd)

\* a selection that starts on whitespace: trimming moves its start to the
\* right of the offset passed in, and its end is expanded to the word's end
TrimmedThenExpanded ==
    /\ pc = "expanded" /\ selStart < selEnd
    /\ IsWhitespace(CharAt(text, selStart))
    /\ selStart < TrimmedStart
    /\ expanded[1] = TrimmedStart
    /\ expanded[2] > selEnd

----------------------------------------------------------------------------
(* Specification of getSentenceBoundaries applied to bounded texts *)

SentenceTexts == TextsUpTo(MaxLen) \cup {HelloText, DontText, BangText}

InitSentence ==
    /\ text \in SentenceTexts
    /\ selStart = 0
    /\ selEnd = 0
    /\ underlines = <<>>
    /\ selectedUnderlineId = Null
    /\ underlineMap = <<>>
    /\ segments = <<>>
    /\ sentenceBoundaries = <<>>
    /\ passedBoundaries = NotPassed
    /\ expanded = Null
    /\ within = Null
    /\ pc = "start"
    /\ ToolIdle

SegmentCall ==
    /\ pc = "start"
    /\ sentenceBoundaries' = getSentenceBoundaries(text)
    /\ pc' = "segmented"
    /\ UNCHANGED <<text, underlines, selectedUnderlineId, underlineMap, segments,
                   selStart, selEnd, passedBoundaries, expanded, within>>
    /\ UNCHANGED toolVars

NextSentence == SegmentCall

SpecSentence == InitSentence /\ [][NextSentence]_vars

----------------------------------------------------------------------------
(* Properties of getSentenceBoundaries *)

\* C8: the boundaries lie inside the text, none is empty, and each ends at
\* or before the start of the next, so their starts increase strictly and
\* no two of them share a position.
BoundariesOrderedDisjoint ==
    pc = "segmented" =>
        /\ \A k \in 1..Len(sentenceBoundaries) :
              /\ 0 <= sentenceBoundaries[k].start
              /\ sentenceBoundaries[k].start < sentenceBoundaries[k].end
              /\ sentenceBoundaries[k].end <= Len(text)
        /\ \A k \in 1..(Len(sentenceBoundaries) - 1) :
              /\ sentenceBoundaries[k].end <= sentenceBoundaries[k + 1].start
              /\ sentenceBoundaries[k].start < sentenceBoundaries[k + 1].start

\* a text cut into two sentences with a gap between them
TwoSentencesWithGap ==
    /\ pc = "segmented"
    /\ Len(sentenceBoundaries) = 2
    /\ sentenceBoundaries[1].end < sentenceBoundaries[2].start

OnlySeparators(t) == \A k \in 1..Len(t) : IsSeparator(t[k])

OnlyTerminalsAndSpace(t) == \A k \in 1..Len(t) : IsTerminal(t[k]) \/ IsWhitespace(t[k])

\* C9 as stated: the empty text has no boundary, and a text of nothing but
\* whitespace and the punctuation set . , ! ? ; : has the whole text as its
\* one boundary
PunctuationOnlyIsWholeText ==
    pc = "segmented" =>
        /\ text = <<>> => sentenceBoundaries = <<>>
        /\ (text # <<>> /\ OnlySeparators(text))
              => sentenceBoundaries = <<[start |-> 0, end |-> Len(text)]>>
        /\ text # <<>> => Len(sentenceBoundaries) >= 1

\* C9 amended: the empty text has no boundary; a non-empty text of nothing
\* but whitespace and the sentence terminals . ! ? has the whole text as its
\* one boundary; every non-empty text has at least one boundary.
TerminalOnlyIsWholeText ==
    pc = "segmented" =>
        /\ text = <<>> => sentenceBoundaries = <<>>
        /\ (text # <<>> /\ OnlyTerminalsAndSpace(text))
              => sentenceBoundaries = <<[start |-> 0, end |-> Len(text)]>>
        /\ text # <<>> => Len(sentenceBoundaries) >= 1

\* "!!!" segmented into its whole-text fallback
BangFallback ==
    /\ pc = "segmented"
    /\ text = BangText
    /\ sentenceBoundaries = <<[start |-> 0, end |-> 3]>>

----------------------------------------------------------------------------
(* Specification of isWithinSingleSentence applied to bounded inputs *)

Boundaries(n) == {[start |-> a, end |-> b] : a \in 0..n, b \in 1..n}

\* the boundary lists passed in: none, one boundary, or two boundaries
BoundaryLists(n) ==
    {<<>>} \cup {<<b>> : b \in Boundaries(n)}
           \cup {<<b1, b2>> : b1 \in Boundaries(n), b2 \in Boundaries(n)}

\* the optional argument: left out, the caller's cached boundaries, or, for
\* an enumerated text, any list of BoundaryLists
PassedChoices(t) ==
    {NotPassed, Passed(getSentenceBoundaries(t))}
        \cup (IF Len(t) <= MaxWithinLen
              THEN {Passed(l) : l \in BoundaryLists(Len(t))}
              ELSE {})

WithinTexts == TextsUpTo(MaxLen) \cup {HelloText}

InitWithin ==
    /\ text \in WithinTexts
    /\ selStart \in 0..Len(text)
    /\ selEnd \in 0..Len(text)
    /\ passedBoundaries \in PassedChoices(text)
    /\ underlines = <<>>
    /\ selectedUnderlineId = Null
    /\ underlineMap = <<>>
    /\ segments = <<>>
    /\ sentenceBoundaries = <<>>
    /\ expanded = Null
    /\ within = Null
    /\ pc = "start"
    /\ ToolIdle

WithinCall ==
    /\ pc = "start"
    /\ within' = isWithinSingleSentence(text, selStart, selEnd, passedBoundaries)
    /\ pc' = "checked"
    /\ UNCHANGED <<text, underlines, selectedUnderlineId, underlineMap, segments,
                   sentenceBoundaries, selStart, selEnd, passedBoundaries, expanded>>
    /\ UNCHANGED toolVars

NextWithin == WithinCall

SpecWithin == InitWithin /\ [][NextWithin]_vars

----------------------------------------------------------------------------
(* Properties of isWithinSingleSentence *)

\* the sequence the call reads: the one passed in, else the text's own
SequenceUsed ==
    IF passedBoundaries = NotPassed THEN getSentenceBoundaries(text)
    ELSE passedBoundaries[1]

\* C10: the result is true exactly when one boundary of the sequence used
\* has start <= selStart and selEnd <= end; for "Hello world. Good day!"
\* (0, 11) gives true and (8, 15), which crosses the sentence break, false.
WithinIffOneBoundaryContains ==
    pc = "checked" =>
        /\ within = (\E k \in 1..Len(SequenceUsed) :
                        /\ SequenceUsed[k].start <= selStart
                        /\ selEnd <= SequenceUsed[k].end)
        /\ (text = HelloText /\ passedBoundaries = NotPassed
               /\ selStart = 0 /\ selEnd = 11) => within = TRUE
        /\ (text = HelloText /\ passedBoundaries = NotPassed
               /\ selStart = 8 /\ selEnd = 15) => within = FALSE

\* a range of "Hello world. Good day!" that reaches into both sentences and
\* is rejected
CrossingRejected ==
    /\ pc = "checked"
    /\ text = HelloText /\ passedBoundaries = NotPassed
    /\ selStart = 8 /\ selEnd = 15
    /\ \E k \in 1..Len(SequenceUsed) :
          selStart < SequenceUsed[k].end /\ selEnd > SequenceUsed[k].start
    /\ within = FALSE

----------------------------------------------------------------------------
(* Specification of ParagraphRenderer applied to bounded inputs, and of    *)
(* the clicks on what it renders                                           *)

\* the ids given to the underlines of a list, in list order: the first ids
\* of one of these sequences
IdOrders == {<<"a", "b", "c", "d", "e">>, <<"e", "d", "c", "b", "a">>}

\* the renderer reads the length of the text only
RenderTexts == {[k \in 1..n |-> "a"] : n \in 0..MaxRenderLen}

Offsets(n) == (-1)..(n + 1)

\* the offset pairs around a text of length n: proper, empty, reversed by
\* one, and out of bounds by one at either side
AnyRanges(n) == {p \in Offsets(n) \X Offsets(n) : p[1] <= p[2] + 1}

\* the pairs with 0 <= start < end <= n
ValidRanges(n) == {p \in (0..n) \X (0..n) : p[1] < p[2]}

Underlines(ids, ranges) ==
    [k \in 1..Len(ranges) |-> [id |-> ids[k], startIndex |-> ranges[k][1],
                                              endIndex |-> ranges[k][2]]]

\* no two underlines of the list have the same (startIndex, endIndex)
PairwiseDifferent(uls) ==
    \A i, j \in 1..Len(uls) :
        (uls[i].startIndex = uls[j].startIndex /\ uls[i].endIndex = uls[j].endIndex)
            => i = j

\* the ranges a and b of the "Hello world. Good day!" scenario
HelloUnderlines ==
    <<[id |-> "a", startIndex |-> 0, endIndex |-> 5],
      [id |-> "b", startIndex |-> 0, endIndex |-> 11]>>

InitRender ==
    /\ \/ /\ text \in RenderTexts
          /\ \E ids \in IdOrders :
                \/ \E k \in 0..MaxRanges :
                      \E ranges \in [1..k -> AnyRanges(Len(text))] :
                          underlines = Underlines(ids, ranges)
                \/ \E k \in 0..MaxValidRanges :
                      \E ranges \in [1..k -> ValidRanges(Len(text))] :
                          /\ underlines = Underlines(ids, ranges)
                          /\ PairwiseDifferent(underlines)
       \/ /\ text = HelloText
          /\ underlines = HelloUnderlines
    /\ selectedUnderlineId = Null
    /\ underlineMap = <<>>
    /\ segments = <<>>
    /\ sentenceBoundaries = <<>>
    /\ selStart = 0
    /\ selEnd = 0
    /\ passedBoundaries = NotPassed
    /\ expanded = Null
    /\ within = Null
    /\ pc = "start"
    /\ ToolIdle

\* ParagraphRenderer renders the text and the underlines
Render ==
    /\ pc = "start"
    /\ underlineMap' = BuildUnderlineMap(text, underlines)
    /\ segments' = ParagraphRenderer(text, underlines)
    /\ pc' = "rendered"
    /\ UNCHANGED <<text, underlines, selectedUnderlineId, sentenceBoundaries,
                   selStart, selEnd, passedBoundaries, expanded, within>>
    /\ UNCHANGED toolVars

\* onClick of the span of an underlined segment: the click goes to the first
\* id of the segment and does not reach the paragraph (stopPropagation);
\* text and underlines are as before, so the segments rendered are too
ClickSegment ==
    /\ pc = "rendered"
    /\ \E k \in 1..Len(segments) :
          /\ Len(segments[k].underlineIds) > 0
          /\ selectedUnderlineId' =
                handleUnderlineClick(selectedUnderlineId, segments[k].underlineIds[1])
    /\ UNCHANGED <<text, underlines, underlineMap, segments, sentenceBoundaries,
                   selStart, selEnd, passedBoundaries, expanded, within, pc>>
    /\ UNCHANGED toolVars

\* onClick of the paragraph, reached from a segment without underline
ClickParagraph ==
    /\ pc = "rendered"
    /\ \E k \in 1..Len(segments) : Len(segments[k].underlineIds) = 0
    /\ selectedUnderlineId' = Null
    /\ UNCHANGED <<text, underlines, underlineMap, segments, sentenceBoundaries,
                   selStart, selEnd, passedBoundaries, expanded, within, pc>>
    /\ UNCHANGED toolVars

NextRender == Render \/ ClickSegment \/ ClickParagraph

SpecRender == InitRender /\ [][NextRender]_vars

----------------------------------------------------------------------------
(* Properties of ParagraphRenderer *)

\* C1: the segments are in left-to-right order, none is empty, the first
\* starts at 0, each next one starts where the previous one ends, the last
\* ends at the length of the text; the empty text has no segment.
SegmentsTileText ==
    pc = "rendered" =>
        /\ Len(text) = 0 => segments = <<>>
        /\ Len(text) > 0 =>
              /\ Len(segments) >= 1
              /\ segments[1].start = 0
              /\ segments[Len(segments)].end = Len(text)
        /\ \A k \in 1..Len(segments) : segments[k].start < segments[k].end
        /\ \A k \in 1..(Len(segments) - 1) : segments[k].end = segments[k + 1].start

\* three segments rendered from a list that holds an underline reaching
\* beyond the end of the text
ThreeSegmentsOutOfBounds ==
    /\ pc = "rendered"
    /\ Len(segments) = 3
    /\ \E j \in 1..Len(underlines) : underlines[j].endIndex > Len(text)

\* the places in the list of the underlines with start <= i < end
CoveringPlaces(i) ==
    {j \in 1..Len(underlines) : underlines[j].startIndex <= i /\ i < underlines[j].endIndex}

SpanLength(j) == underlines[j].endIndex - underlines[j].startIndex

\* C2: the id sequence of position i holds exactly the ids of the ranges
\* with start <= i < end, shortest range first, and ranges of equal length
\* in the order of the input list.
CoveringIdsShortestFirstStable ==
    pc = "rendered" =>
        \A i \in 0..(Len(text) - 1) :
            \E order \in [1..Cardinality(CoveringPlaces(i)) -> CoveringPlaces(i)] :
                /\ \A p, q \in DOMAIN order : p < q =>
                      \/ SpanLength(order[p]) < SpanLength(order[q])
                      \/ SpanLength(order[p]) = SpanLength(order[q]) /\ order[p] < order[q]
                /\ underlineMap[i + 1] = [p \in DOMAIN order |-> underlines[order[p]].id]

\* a position covered by two different ranges of equal length, which stay in
\* list order although their ids are listed in descending order
TieKeepsListOrder ==
    /\ pc = "rendered"
    /\ \E i \in 0..(Len(text) - 1) :
          \E j1, j2 \in CoveringPlaces(i) :
              /\ j1 < j2
              /\ SpanLength(j1) = SpanLength(j2)
              /\ underlines[j1].startIndex # underlines[j2].startIndex
              /\ underlines[j1].id = "e" /\ underlines[j2].id = "d"
              /\ underlineMap[i + 1] = <<"e", "d">>

\* C3: every position of a segment has the segment's id sequence, two
\* consecutive segments have different id sequences, and an empty list on a
\* non-empty text gives the one segment [0, length) without ids.
SegmentsAreMaximalRuns ==
    pc = "rendered" =>
        /\ \A k \in 1..Len(segments) :
              \A i \in segments[k].start..(segments[k].end - 1) :
                  underlineMap[i + 1] = segments[k].underlineIds
        /\ \A k \in 1..(Len(segments) - 1) :
              segments[k].underlineIds # segments[k + 1].underlineIds
        /\ (underlines = <<>> /\ Len(text) > 0) =>
              segments = <<[start |-> 0, end |-> Len(text), underlineIds |-> <<>>]>>

\* a segment of two positions followed by a segment with as many ids, but
\* other ones
RunThenOtherIds ==
    /\ pc = "rendered"
    /\ \E k \in 1..(Len(segments) - 1) :
          /\ segments[k].end - segments[k].start >= 2
          /\ Len(segments[k].underlineIds) = 1
          /\ Len(segments[k + 1].underlineIds) = 1

HelloRendered == pc = "rendered" /\ text = HelloText /\ underlines = HelloUnderlines

\* C4 as stated: the third segment of the scenario ends at 23
HelloSegmentsEndAt23 ==
    HelloRendered =>
        segments = <<[start |-> 0, end |-> 5, underlineIds |-> <<"a", "b">>],
                     [start |-> 5, end |-> 11, underlineIds |-> <<"b">>],
                     [start |-> 11, end |-> 23, underlineIds |-> <<>>]>>

\* C4 amended: for "Hello world. Good day!", which has 22 characters, and
\* the ranges a = [0,5), b = [0,11) the segments are {0,5,[a,b]}, {5,11,[b]}
\* and {11,22,[]}, in that order.
HelloSegmentsEndAt22 ==
    HelloRendered =>
        segments = <<[start |-> 0, end |-> 5, underlineIds |-> <<"a", "b">>],
                     [start |-> 5, end |-> 11, underlineIds |-> <<"b">>],
                     [start |-> 11, end |-> 22, underlineIds |-> <<>>]>>

\* the scenario rendered into three segments
HelloThreeSegments == HelloRendered /\ Len(segments) = 3

WellFormed(ul) == 0 <= ul.startIndex /\ ul.startIndex < ul.endIndex /\ ul.endIndex <= Len(text)

\* C5: when the ranges are well-formed and pairwise different, every range is
\* the click target (the first id) of some segment, and what a click has
\* selected is the id of exactly one range.
EveryRangeIsAClickTarget ==
    (/\ pc = "rendered"
     /\ \A j \in 1..Len(underlines) : WellFormed(underlines[j])
     /\ PairwiseDifferent(underlines)) =>
        /\ \A j \in 1..Len(underlines) :
              \E k \in 1..Len(segments) :
                  /\ Len(segments[k].underlineIds) > 0
                  /\ segments[k].underlineIds[1] = underlines[j].id
        /\ selectedUnderlineId # Null =>
              Cardinality({j \in 1..Len(underlines) :
                              underlines[j].id = selectedUnderlineId}) = 1

----------------------------------------------------------------------------
(* Specification of clipToSentenceBoundary applied to bounded inputs *)

ClipCall ==
    /\ pc = "start"
    /\ clipped' = clipToSentenceBoundary(text, selStart, selEnd, passedBoundaries)
    /\ pc' = "clipped"
    /\ UNCHANGED <<text, underlines, selectedUnderlineId, underlineMap, segments,
                   sentenceBoundaries, selStart, selEnd, passedBoundaries, expanded,
                   within, currentSelection, nextId, variant, lastOp>>

NextClip == ClipCall

SpecClip == InitWithin /\ [][NextClip]_vars

----------------------------------------------------------------------------
(* Properties of clipToSentenceBoundary *)

\* the places in the sequence used of the boundaries with
\* start <= selStart < end
PlacesHoldingStart ==
    {k \in 1..Len(SequenceUsed) :
        SequenceUsed[k].start <= selStart /\ selStart < SequenceUsed[k].end}

\* C11: the result is (max(start, b.start), min(end, b.end)) for the first
\* boundary b of the sequence with b.start <= start < b.end, and the input
\* pair when no boundary holds start; a pair is returned in every case.
ClipsToFirstBoundaryHoldingStart ==
    pc = "clipped" =>
        /\ clipped \in Int \X Int
        /\ PlacesHoldingStart = {} => clipped = <<selStart, selEnd>>
        /\ \A k \in PlacesHoldingStart :
              (\A j \in PlacesHoldingStart : k <= j) =>
                  /\ clipped[1] = IF selStart > SequenceUsed[k].start THEN selStart
                                  ELSE SequenceUsed[k].start
                  /\ clipped[2] = IF selEnd < SequenceUsed[k].end THEN selEnd
                                  ELSE SequenceUsed[k].end

\* two boundaries hold the start, the first ends before the second and
\* before the end of the range, and the range is cut at the end of the first
ClippedAtFirstOfTwo ==
    /\ pc = "clipped"
    /\ Cardinality(PlacesHoldingStart) = 2
    /\ passedBoundaries # NotPassed
    /\ SequenceUsed[1].end < SequenceUsed[2].end
    /\ SequenceUsed[1].end < selEnd
    /\ clipped = <<selStart, SequenceUsed[1].end>>

----------------------------------------------------------------------------
(* UnderlineTool: text selection, add, remove and clear.  Two versions of  *)
(* the component are modelled: in "direct" (components/UnderlineTool/      *)
(* UnderlineTool.tsx) a valid selection becomes an underline at once, in   *)
(* "confirm" a valid selection is kept in currentSelection until the Add   *)
(* button is used, and there is a Clear All button.                        *)

\* uuidv4(): the n-th id issued; no id is issued twice
NewId(n) == "u" \o ToString(n)

\* !text.slice(startIndex, endIndex).trim()
TrimsToNothing(str) == \A k \in 1..Len(str) : IsWhitespace(str[k])

\* startIndex >= endIndex || !text.slice(startIndex, endIndex).trim()
IsBlankSelection(t, startIndex, endIndex) ==
    startIndex >= endIndex \/ TrimsToNothing(Slice(t, startIndex, endIndex))

\* the checks of handleTextSelection between the raw offsets and the
\* snapped selection: which return is taken
SelectionVerdictUnchecked(t, startIndex, endIndex, boundaries) ==
    IF IsBlankSelection(t, startIndex, endIndex) THEN "blank"
    ELSE LET word == expandToWordBoundaries(t, startIndex, endIndex)
         IN  IF word[1] >= word[2] THEN "collapsed" ELSE "ok"
SelectionVerdict(t, startIndex, endIndex, boundaries) ==
    IF IsBlankSelection(t, startIndex, endIndex) THEN "blank"
    ELSE LET word == expandToWordBoundaries(t, startIndex, endIndex)
         IN  IF word[1] >= word[2] THEN "collapsed"
             ELSE IF ~isWithinSingleSentence(t, word[1], word[2], Passed(boundaries))
                  THEN "crossing"
                  ELSE "ok"

\* underlines.some(ul => ul.startIndex === start && ul.endIndex === end)
NeverDuplicate(uls, start, end) == FALSE
IsDuplicate(uls, start, end) ==
    \E k \in 1..Len(uls) : uls[k].startIndex = start /\ uls[k].endIndex = end

\* underlines: [...prev.underlines, newUnderline]
WithNewUnderline(uls, id, start, end) ==
    Append(uls, [id |-> id, startIndex |-> start, endIndex |-> end])

\* prev.underlines.filter(underline => underline.id !== selectedUnderlineId)
WithoutFirst(uls, id) == IF Len(uls) = 0 THEN uls ELSE Tail(uls)
WithoutUnderline(uls, id) == SelectSeq(uls, LAMBDA ul : ul.id # id)

\* [wordStart, wordEnd] of the last selection is not kept by other handlers
LocalsDropped ==
    /\ expanded' = Null
    /\ UNCHANGED <<selStart, selEnd, within>>

\* the component renders again: the paragraph changes with the underlines only
Rendered ==
    IF underlines' = underlines
    THEN UNCHANGED <<underlineMap, segments>>
    ELSE /\ underlineMap' = BuildUnderlineMap(text, underlines')
         /\ segments' = ParagraphRenderer(text, underlines')

\* handleTextSelection; the mouse selection gives startIndex and the length
\* of the selected string, which may reach behind the end of the paragraph;
\* of the handler's locals, expanded keeps [wordStart, wordEnd]
handleTextSelection ==
    /\ pc = "rendered"
    /\ variant \in {"direct", "confirm"}
    /\ \E startIndex \in 0..Len(text) :
       \E endIndex \in startIndex..(Len(text) + MaxBeyond) :
          LET verdict == SelectionVerdict(text, startIndex, endIndex, sentenceBoundaries)
              word == expandToWordBoundaries(text, startIndex, endIndex)
              duplicate == IsDuplicate(underlines, word[1], word[2])
          IN  /\ expanded' = IF verdict = "blank" THEN Null ELSE word
              /\ UNCHANGED <<selStart, selEnd, within>>
              /\ IF variant = "confirm"
                 THEN /\ currentSelection' =
                            IF verdict = "ok"
                            THEN <<[start |-> word[1], end |-> word[2]]>>
                            ELSE NoSelection
                      /\ lastOp' = "select:" \o verdict
                      /\ UNCHANGED <<underlines, nextId>>
                 ELSE /\ UNCHANGED currentSelection
                      /\ IF verdict = "ok" /\ ~duplicate
                         THEN /\ nextId <= MaxAdds
                              /\ underlines' = WithNewUnderline(underlines, NewId(nextId),
                                                                 word[1], word[2])
                              /\ nextId' = nextId + 1
                              /\ lastOp' = "select:added"
                         ELSE /\ UNCHANGED <<underlines, nextId>>
                              /\ lastOp' = IF verdict = "ok" THEN "select:duplicate"
                                           ELSE "select:" \o verdict
    /\ Rendered
    /\ UNCHANGED <<text, selectedUnderlineId, sentenceBoundaries, passedBoundaries,
                   pc, clipped, variant>>

\* handleAddUnderline
handleAddUnderline ==
    /\ pc = "rendered"
    /\ variant = "confirm"
    /\ IF currentSelection = NoSelection
       THEN /\ lastOp' = "add:none"
            /\ UNCHANGED <<underlines, nextId>>
       ELSE IF IsDuplicate(underlines, currentSelection[1].start, currentSelection[1].end)
       THEN /\ lastOp' = "add:duplicate"
            /\ UNCHANGED <<underlines, nextId>>
       ELSE /\ nextId <= MaxAdds
            /\ underlines' = WithNewUnderline(underlines, NewId(nextId),
                                               currentSelection[1].start,
                                               currentSelection[1].end)
            /\ nextId' = nextId + 1
            /\ lastOp' = "add"
    /\ currentSelection' = NoSelection
    /\ LocalsDropped
    /\ Rendered
    /\ UNCHANGED <<text, selectedUnderlineId, sentenceBoundaries, passedBoundaries,
                   pc, clipped, variant>>

\* onClick of the span of an underlined segment, in UnderlineTool
handleSegmentClick ==
    /\ pc = "rendered"
    /\ variant \in {"direct", "confirm"}
    /\ \E k \in 1..Len(segments) :
          /\ Len(segments[k].underlineIds) > 0
          /\ selectedUnderlineId' =
                handleUnderlineClick(selectedUnderlineId, segments[k].underlineIds[1])
    /\ lastOp' = "click"
    /\ LocalsDropped
    /\ UNCHANGED <<text, underlines, underlineMap, segments, sentenceBoundaries,
                   passedBoundaries, pc, clipped, currentSelection, nextId, variant>>

\* onClick of the paragraph, in UnderlineTool
handleParagraphClick ==
    /\ pc = "rendered"
    /\ variant \in {"direct", "confirm"}
    /\ selectedUnderlineId' = Null
    /\ lastOp' = "click:paragraph"
    /\ LocalsDropped
    /\ UNCHANGED <<text, underlines, underlineMap, segments, sentenceBoundaries,
                   passedBoundaries, pc, clipped, currentSelection, nextId, variant>>

\* handleRemoveUnderline
handleRemoveUnderline ==
    /\ pc = "rendered"
    /\ variant \in {"direct", "confirm"}
    /\ IF selectedUnderlineId = Null
       THEN /\ lastOp' = "remove:none"
            /\ UNCHANGED <<underlines, selectedUnderlineId>>
       ELSE /\ underlines' = WithoutUnderline(underlines, selectedUnderlineId)
            /\ selectedUnderlineId' = Null
            /\ lastOp' = "remove"
    /\ LocalsDropped
    /\ Rendered
    /\ UNCHANGED <<text, sentenceBoundaries, passedBoundaries, pc, clipped,
                   currentSelection, nextId, variant>>

\* handleClearAll; window.confirm answers either way
handleClearAll ==
    /\ pc = "rendered"
    /\ variant = "confirm"
    /\ \E confirmed \in BOOLEAN :
          IF confirmed
          THEN /\ underlines' = <<>>
               /\ selectedUnderlineId' = Null
               /\ lastOp' = "clear"
          ELSE /\ lastOp' = "clear:cancel"
               /\ UNCHANGED <<underlines, selectedUnderlineId>>
    /\ LocalsDropped
    /\ Rendered
    /\ UNCHANGED <<text, sentenceBoundaries, passedBoundaries, pc, clipped,
                   currentSelection, nextId, variant>>

\* "a. b", ",b" and " a,"
ToolTexts ==
    {<<"a", ".", " ", "b">>, <<",", "b">>, <<" ", "a", ",">>}

\* the component mounted with the underlines uls: the effect has stored the
\* sentence boundaries of the text and the paragraph is rendered
Mounted(uls) ==
    /\ variant \in {"direct", "confirm"}
    /\ underlines = uls
    /\ selectedUnderlineId = Null
    /\ sentenceBoundaries = getSentenceBoundaries(text)
    /\ underlineMap = BuildUnderlineMap(text, uls)
    /\ segments = ParagraphRenderer(text, uls)
    /\ currentSelection = NoSelection
    /\ nextId = Len(uls) + 1
    /\ lastOp = "none"
    /\ selStart = 0
    /\ selEnd = 0
    /\ passedBoundaries = NotPassed
    /\ expanded = Null
    /\ within = Null
    /\ clipped = Null
    /\ pc = "rendered"

\* initialUnderlines = []
Init ==
    /\ text \in ToolTexts
    /\ Mounted(<<>>)

Next ==
    \/ handleTextSelection
    \/ handleAddUnderline
    \/ handleSegmentClick
    \/ handleParagraphClick
    \/ handleRemoveUnderline
    \/ handleClearAll

Spec == Init /\ [][Next]_vars

\* the ranges a selection of t snaps to
SnappedRanges(t) ==
    {expandToWordBoundaries(t, p[1], p[2]) :
        p \in {q \in (0..Len(t)) \X (0..Len(t)) :
                  ~IsBlankSelection(t, q[1], q[2])}}

\* the ids issued for a stored list of k underlines
IssuedIds(k) == [i \in 1..k |-> NewId(i)]

\* the component starts with stored underlines, no two of them with the
\* same range; their ids were issued when they were added
InitLoaded ==
    /\ text \in ToolTexts
    /\ \E k \in 0..MaxAdds :
       \E ranges \in [1..k -> SnappedRanges(text)] :
          /\ \A i, j \in 1..k : i # j => ranges[i] # ranges[j]
          /\ Mounted(Underlines(IssuedIds(k), ranges))

SpecLoaded == InitLoaded /\ [][Next]_vars

\* C12: starting from a list without two equal ranges, the list never holds
\* two underlines with the same (startIndex, endIndex), and a selection
\* whose snapped range is already in the list leaves the list as it is
\* when it is confirmed (Add) or, in the direct version, when it is made
SnappedAlreadyPresent ==
    \/ /\ lastOp' \in {"add", "add:duplicate"}
       /\ currentSelection # NoSelection
       /\ \E k \in 1..Len(underlines) :
             /\ underlines[k].startIndex = currentSelection[1].start
             /\ underlines[k].endIndex = currentSelection[1].end
    \/ /\ lastOp' \in {"select:added", "select:duplicate"}
       /\ variant = "direct"
       /\ \E k \in 1..Len(underlines) :
             /\ underlines[k].startIndex = expanded'[1]
             /\ underlines[k].endIndex = expanded'[2]

NoTwoEqualRanges ==
    /\ [](\A i, j \in 1..Len(underlines) :
            (/\ underlines[i].startIndex = underlines[j].startIndex
             /\ underlines[i].endIndex = underlines[j].endIndex) => i = j)
    /\ [][SnappedAlreadyPresent => underlines' = underlines]_vars

\* Add was used on a selection equal to the first of two stored underlines
DuplicateSuppressed ==
    /\ lastOp = "add:duplicate"
    /\ Len(underlines) = 2
    /\ underlines[1].id = NewId(1)
    /\ underlines[2].id = NewId(2)

\* C13: starting from an empty list, every underline of the list has
\* 0 <= startIndex < endIndex <= length of the text, whatever raw offsets
\* the selections had (a selection of whitespace only, a raw end behind the
\* end of the text); a selection that is turned down leaves no selection
RangesWithinText ==
    /\ \A k \in 1..Len(underlines) :
          /\ 0 <= underlines[k].startIndex
          /\ underlines[k].startIndex < underlines[k].endIndex
          /\ underlines[k].endIndex <= Len(text)
    /\ lastOp \in {"select:blank", "select:collapsed", "select:crossing"}
          => currentSelection = NoSelection

\* with an underline in the list, a selection whose raw end lies behind the
\* end of the text was expanded to a pair that ends there and was turned down
RawEndBeyondTextRejected ==
    /\ lastOp = "select:crossing"
    /\ expanded[1] < Len(text)
    /\ expanded[2] > Len(text)
    /\ Len(underlines) > 0

\* C14: starting from an empty list, every underline of the list lies in
\* one boundary of getSentenceBoundaries(text); an expanded selection that no
\* single boundary contains creates no underline
RangesWithinOneSentence ==
    \A k \in 1..Len(underlines) :
        \E j \in 1..Len(getSentenceBoundaries(text)) :
            /\ getSentenceBoundaries(text)[j].start <= underlines[k].startIndex
            /\ underlines[k].endIndex <= getSentenceBoundaries(text)[j].end

\* with an underline in the list, a selection inside the text that reaches
\* from the first sentence into the second was turned down
CrossingSelectionRejected ==
    /\ lastOp = "select:crossing"
    /\ expanded[2] <= Len(text)
    /\ Len(getSentenceBoundaries(text)) = 2
    /\ expanded[1] < getSentenceBoundaries(text)[1].end
    /\ expanded[2] > getSentenceBoundaries(text)[2].start
    /\ Len(underlines) > 0

\* the list after is the list before with the underline at place p left out
LeftOut(before, after, p) ==
    /\ Len(after) = Len(before) - 1
    /\ \A k \in 1..Len(after) : after[k] = IF k < p THEN before[k] ELSE before[k + 1]

\* the list after begins with the whole list before
KeptInFront(before, after) ==
    /\ Len(before) <= Len(after)
    /\ \A k \in 1..Len(before) : after[k] = before[k]

ExpandStaysInSentence ==
    (pc = "expanded" /\ selStart < selEnd) =>
        \A j \in 1..Len(getSentenceBoundaries(text)) :
            LET b == getSentenceBoundaries(text)[j]
            IN  (b.start <= TrimmedStart /\ TrimmedEnd <= b.end) =>
                    /\ b.start <= expanded[1] /\ expanded[2] <= b.end
                    /\ isWithinSingleSentence(text, expanded[1], expanded[2], NotPassed)

\* a selection inside a boundary that begins behind the start of the text
\* was expanded to the left up to the start of that boundary
ExpandedToBoundaryStart ==
    /\ pc = "expanded" /\ selStart < selEnd
    /\ \E j \in 1..Len(getSentenceBoundaries(text)) :
          LET b == getSentenceBoundaries(text)[j]
          IN  /\ b.start > 0
              /\ b.start <= TrimmedStart /\ TrimmedEnd <= b.end
              /\ expanded[1] = b.start
              /\ expanded[1] < TrimmedStart

====
